---- MODULE Spec2Model ----
(***************************************************************************)
(* A model of the data2csv remote MCP server (src/src/simple_remote_server  *)
(* .py) and of the converters it calls (src/src/tools).                     *)
(*                                                                          *)
(* The server is one asyncio event loop: the code between two suspension    *)
(* points of a coroutine runs without interleaving, so one action of the    *)
(* model is one such stretch of code.  The suspension points are            *)
(*   - the yields of event_generator (lines 116, 123, 128),                 *)
(*   - `await asyncio.wait_for(queue.get(), timeout=30.0)` (line 121),      *)
(*   - `await request.json()` in handle_messages (line 154).                *)
(* `await queue.put(..)` on an unbounded asyncio.Queue and                  *)
(* `await connection_manager.disconnect(..)` never suspend.                 *)
(*                                                                          *)
(* Values.  An Optional[T] is a sequence of length 0 (None) or 1.  A text   *)
(* (Python str) is a sequence of string tokens, so that an f-string is the  *)
(* concatenation of its pieces.                                             *)
(***************************************************************************)
EXTENDS Integers, Sequences, FiniteSets, TLC

\* ---------------------------------------------------------------- bounds
\* number of HTTP requests served in Spec, GET /sse and POST /messages/{id}
\* together
MaxRequests == 4
\* number of 30 s timeouts taken, all connections together
MaxPings == 1
\* number of HTTP requests served in SpecDispatch
DispatchRequests == 2

\* rows of a data argument in SpecTools
MaxRows == 2
\* cells of a row, and one less than the longest headers list, in SpecTools
MaxCols == 2

\* number of HTTP requests served in SpecErrors
ErrorRequests == 3
\* number of HTTP requests served in SpecStream
StreamRequests == 3
\* number of 30 s timeouts taken in SpecStream
StreamPings == 2
\* number of HTTP requests served in SpecLive
LiveRequests == 3
\* number of 30 s timeouts taken in SpecLive
LivePings == 1
\* calls made on a ConnectionManager in SpecManager
MaxCalls == 4

\* ------------------------------------------------------- program constants
MethodNotFound == -32601
InternalError == -32603

None == <<>>
Some(v) == <<v>>

\* the uuid4 drawn by the n-th GET /sse is modelled as n: ids are never reused
ConnIds == 1..MaxRequests

\* ------------------------------------------------------------ basic helpers
RECURSIVE Concat(_)
Concat(ss) == IF ss = <<>> THEN <<>> ELSE Head(ss) \o Concat(Tail(ss))

Range(s) == {s[i] : i \in 1..Len(s)}

IsPrefix(s, t) == Len(s) <= Len(t) /\ SubSeq(t, 1, Len(s)) = s

\* str(n) for the small non-negative numbers the model meets
NumStr(n) ==
    CASE n = 0 -> "0" [] n = 1 -> "1" [] n = 2 -> "2" [] n = 3 -> "3"
      [] n = 4 -> "4" [] OTHER -> "n"

\* ------------------------------------------------------------ tabular data
\* A JSON value given as `data`: kind "list" is a list whose items are `rows`,
\* "null" is None/absent, "string" a non-empty string.  A row is a list of
\* cells (list = TRUE) or some other JSON value (list = FALSE).
Row(cells) == [list |-> TRUE, cells |-> cells]
NotARow == [list |-> FALSE, cells |-> <<>>]
DataList(rows) == [kind |-> "list", rows |-> rows]
DataNull == [kind |-> "null", rows |-> <<>>]
DataString == [kind |-> "string", rows |-> <<>>]

\* `headers`: None, a list of strings, or a value that is not a list of strings
HeadersNone == [kind |-> "none", names |-> <<>>]
HeadersList(names) == [kind |-> "list", names |-> names]
HeadersBad == [kind |-> "bad", names |-> <<>>]

\* a validate_data without the check of the rows' lengths
validate_data_any_width(data) ==
    IF data.kind = "null" \/ (data.kind = "list" /\ data.rows = <<>>)
    THEN <<FALSE, <<"Data cannot be empty">> >>
    ELSE IF data.kind # "list"
    THEN <<FALSE, <<"Data must be a list">> >>
    ELSE IF ~ \A i \in 1..Len(data.rows) : data.rows[i].list
    THEN <<FALSE, <<"All rows must be lists">> >>
    ELSE <<TRUE, <<>> >>

\* CSVConverter.validate_data: <<is_valid, error_message>>
validate_data(data) ==
    IF data.kind = "null" \/ (data.kind = "list" /\ data.rows = <<>>)
    THEN <<FALSE, <<"Data cannot be empty">> >>
    ELSE IF data.kind # "list"
    THEN <<FALSE, <<"Data must be a list">> >>
    ELSE IF ~ \A i \in 1..Len(data.rows) : data.rows[i].list
    THEN <<FALSE, <<"All rows must be lists">> >>
    ELSE IF ~ \A i \in 1..Len(data.rows) :
                 Len(data.rows[i].cells) = Len(data.rows[1].cells)
    THEN <<FALSE, <<"All rows must have the same number of columns">> >>
    ELSE <<TRUE, <<>> >>

\* ConvertRequest(data=.., headers=.., filename=..): pydantic raises a
\* ValidationError unless data is a non-empty list of lists and headers is
\* None or a list of strings.
ConvertRequestRaises(data, headers) ==
    \/ data.kind # "list"
    \/ data.rows = <<>>
    \/ \E i \in 1..Len(data.rows) : ~ data.rows[i].list
    \/ headers.kind = "bad"

ConvertRequest(data, headers, filename) ==
    [data |-> data, headers |-> headers, filename |-> filename]

\* ConvertResponse
ConvertResponse(success, content, content_type, filename, message) ==
    [success |-> success, content |-> content, content_type |-> content_type,
     filename |-> filename, message |-> message]

\* len(df.columns) of pd.DataFrame(request.data): the width of the widest row
RECURSIVE MaxWidth(_)
MaxWidth(rows) ==
    IF rows = <<>> THEN 0
    ELSE LET w == Len(Head(rows).cells)
             r == MaxWidth(Tail(rows))
         IN IF w >= r THEN w ELSE r

ColumnCount(request) == MaxWidth(request.data.rows)

\* `if request.headers:` is false for None and for the empty list
HeadersGiven(request) ==
    request.headers.kind = "list" /\ request.headers.names # <<>>

HeaderMismatch(request) ==
    ConvertResponse(FALSE, <<>>, "text/plain", <<>>,
        <<"Headers count (", NumStr(Len(request.headers.names)),
          ") doesn't match columns count (", NumStr(ColumnCount(request)), ")">>)

\* df.columns: the supplied headers, else pandas' default labels 0..n-1
ColumnLabels(request) ==
    IF HeadersGiven(request) THEN request.headers.names
    ELSE [i \in 1..ColumnCount(request) |-> NumStr(i - 1)]

\* A cell is written as the JSON text of its value: "1" is the number 1,
\* "2.5" the number 2.5, "null" is None, every other cell is that string.
IntCells == {"1"}
FloatCells == {"2.5"}

CellKind(cell) ==
    IF cell \in IntCells THEN "int"
    ELSE IF cell \in FloatCells THEN "float"
    ELSE IF cell = "null" THEN "null"
    ELSE "str"

\* the kinds of the values of column j; a row too short for the column
\* contributes a missing value
ColumnKinds(rows, j) ==
    {IF Len(rows[i].cells) >= j THEN CellKind(rows[i].cells[j]) ELSE "null" :
        i \in 1..Len(rows)}

\* pd.DataFrame(request.data): the dtype pandas infers for column j.  Integers
\* alone give int64; numbers with a float or a missing value among them give
\* float64; anything else is kept as Python objects.
ColumnDtype(rows, j) ==
    LET kinds == ColumnKinds(rows, j)
    IN IF kinds = {"int"} THEN "int64"
       ELSE IF kinds \subseteq {"int", "float", "null"} /\ kinds # {"null"} THEN "float64"
       ELSE "object"

\* repr of the float an integer has become in a float64 column
FloatRepr(cell) == IF cell = "1" THEN "1.0" ELSE cell

\* the text df.to_csv writes for a cell of a column of the given dtype: a
\* missing value is written as the empty string (na_rep='')
Written(cell, dtype) ==
    IF CellKind(cell) = "null" THEN ""
    ELSE IF dtype = "float64" /\ CellKind(cell) = "int" THEN FloatRepr(cell)
    ELSE cell

\* the characters of a text
Chars(text) ==
    IF text = "" THEN <<>>
    ELSE IF text = "x,y" THEN <<"x", ",", "y">>
    ELSE IF text = "2.5" THEN <<"2", ".", "5">>
    ELSE IF text = "1.0" THEN <<"1", ".", "0">>
    ELSE IF text = "None" THEN <<"N", "o", "n", "e">>
    ELSE <<text>>

RECURSIVE DoubleQuotes(_)
DoubleQuotes(cs) ==
    IF cs = <<>> THEN <<>>
    ELSE (IF Head(cs) = "\"" THEN <<"\"", "\"">> ELSE <<Head(cs)>>) \o DoubleQuotes(Tail(cs))

\* csv.writer with QUOTE_MINIMAL: a field is quoted when it contains the
\* delimiter, the quote character or a line break, and a row that consists
\* of one empty field is written as ""
CsvField(text, alone) ==
    LET cs == Chars(text)
    IN IF (\E i \in 1..Len(cs) : cs[i] \in {",", "\"", "\n", "\r"}) \/ (alone /\ cs = <<>>)
       THEN <<"\"">> \o DoubleQuotes(cs) \o <<"\"">>
       ELSE cs

RECURSIVE CsvFields(_, _)
CsvFields(texts, alone) ==
    IF texts = <<>> THEN <<"\n">>
    ELSE IF Len(texts) = 1 THEN CsvField(texts[1], alone) \o <<"\n">>
    ELSE CsvField(texts[1], alone) \o <<",">> \o CsvFields(Tail(texts), alone)

\* one line of df.to_csv: the fields joined by "," and ended by "\n"
CsvLine(texts) == CsvFields(texts, Len(texts) = 1)

\* the texts of row i of the DataFrame
WrittenRow(rows, i) ==
    [j \in 1..Len(rows[i].cells) |-> Written(rows[i].cells[j], ColumnDtype(rows, j))]

\* df.to_csv(index=False): the header line, then one line per row
CsvContent(request) ==
    CsvLine(ColumnLabels(request))
      \o Concat([i \in 1..Len(request.data.rows) |-> CsvLine(WrittenRow(request.data.rows, i))])

\* CSVConverter.convert_to_csv
convert_to_csv(request) ==
    IF HeadersGiven(request) /\ Len(request.headers.names) # ColumnCount(request)
    THEN HeaderMismatch(request)
    ELSE ConvertResponse(TRUE, CsvContent(request), "text/csv",
             request.filename \o <<".csv">>,
             <<"Successfully converted ", NumStr(Len(request.data.rows)),
               " rows to CSV format">>)

\* the workbook written by df.to_excel(sheet_name='Data', index=False),
\* base64 encoded: the sheet's rows, header row first
XlsxContent(request, styled) ==
    <<"base64(xlsx", "sheet=Data">>
      \o (IF styled THEN <<"widths">> ELSE <<>>)
      \o (IF styled /\ HeadersGiven(request) THEN <<"bold-header">> ELSE <<>>)
      \o CsvContent(request) \o <<")">>

\* openpyxl refuses a string with a control character (ILLEGAL_CHARACTERS_RE,
\* the form feed among them): writing the cell raises IllegalCharacterError
IllegalCells == {"\f"}

\* df.to_excel raises on the request's cells or column labels
ToExcelRaises(request) ==
    \/ \E i \in 1..Len(request.data.rows) :
          \E j \in 1..Len(request.data.rows[i].cells) :
              request.data.rows[i].cells[j] \in IllegalCells
    \/ \E j \in 1..Len(ColumnLabels(request)) : ColumnLabels(request)[j] \in IllegalCells

\* the except clause of an encoder: lines 59-66 of csv_converter.py, 68-75
\* and 158-165 of excel_converter.py
EncoderFailure(prefix, exc) ==
    ConvertResponse(FALSE, <<>>, "text/plain", <<>>, <<prefix, exc>>)

\* ExcelConverter.convert_to_excel
convert_to_excel(request) ==
    IF HeadersGiven(request) /\ Len(request.headers.names) # ColumnCount(request)
    THEN HeaderMismatch(request)
    ELSE IF ToExcelRaises(request)
    THEN EncoderFailure("Error converting to Excel: ", "IllegalCharacterError")
    ELSE ConvertResponse(TRUE, XlsxContent(request, FALSE),
             "application/vnd.openxmlformats-officedocument.spreadsheetml.sheet",
             request.filename \o <<".xlsx">>,
             <<"Successfully converted ", NumStr(Len(request.data.rows)),
               " rows to Excel format">>)

\* ExcelConverter.convert_to_excel_with_styling
convert_to_excel_with_styling(request) ==
    IF HeadersGiven(request) /\ Len(request.headers.names) # ColumnCount(request)
    THEN HeaderMismatch(request)
    ELSE IF ToExcelRaises(request)
    THEN EncoderFailure("Error converting to styled Excel: ", "IllegalCharacterError")
    ELSE ConvertResponse(TRUE, XlsxContent(request, TRUE),
             "application/vnd.openxmlformats-officedocument.spreadsheetml.sheet",
             request.filename \o <<"_styled.xlsx">>,
             <<"Successfully converted ", NumStr(Len(request.data.rows)),
               " rows to styled Excel format">>)

\* ------------------------------------------------------- JSON-RPC envelope
\* The body of a POST.  env "undecodable": request.json() raises; "invalid":
\* the JSON is no MCPRequest (method missing or not a string, params not an
\* object); "ok": MCPRequest(**body) succeeds.  id is Optional.
\* params.args tells whether params["arguments"] is an object.
Params(name, args, data, headers, styled) ==
    [name |-> name, args |-> args, data |-> data, headers |-> headers,
     filename |-> <<"data">>, styled |-> styled]

NoParams == Params("", "dict", DataNull, HeadersNone, FALSE)

Body(env, id, method, params) ==
    [env |-> env, id |-> id, method |-> method, params |-> params]

\* MCPResponse(id=.., result=.., error=..).model_dump(exclude_none=True):
\* a field that is None is left out of the dumped dict
MCPResponse(id, result, error) ==
    [jsonrpc |-> "2.0", id |-> id, result |-> result, error |-> error]

HasField(response, f) == response[f] # None

\* the `result` dicts built by handle_messages
InitializeResult == [payload |-> "initialize", isError |-> FALSE, text |-> <<>>]
ToolsListResult == [payload |-> "tools", isError |-> FALSE, text |-> <<>>]
ToolContent(text, isError) == [payload |-> "content", isError |-> isError, text |-> text]

\* the `error` dicts built by handle_messages
ErrorObject(code, message, data) == [code |-> code, message |-> message, data |-> data]

\* what the inner try of tools/call leaves: a result or an exception, and the
\* encoders it invoked, each with the data it was given
Returned(result) ==
    [raised |-> FALSE, exc |-> <<>>, result |-> result, encoders |-> <<>>]
Raised(exc) ==
    [raised |-> TRUE, exc |-> exc, result |-> ToolContent(<<>>, TRUE), encoders |-> <<>>]

Encoded(encoder, data) == [encoder |-> encoder, data |-> data]

\* lines 227 and 245-248: the name of the encoder a tool invokes
EncoderName(params, excel) ==
    IF ~ excel THEN "convert_to_csv"
    ELSE IF params.styled THEN "convert_to_excel_with_styling"
    ELSE "convert_to_excel"

\* lines 227 and 245-248: the encoder a tool invokes on a built request
EncoderResponse(params, excel) ==
    LET request_obj == ConvertRequest(params.data, params.headers, params.filename)
    IN IF ~ excel THEN convert_to_csv(request_obj)
       ELSE IF params.styled THEN convert_to_excel_with_styling(request_obj)
       ELSE convert_to_excel(request_obj)

\* the tool result that reports an encoder failure as a success
ConvertedWithoutFlag(response_obj) ==
    ToolContent(response_obj.content, FALSE)

\* lines 228-231 and 249-252: the tool result built from the encoder's response
Converted(response_obj) ==
    ToolContent(IF response_obj.success THEN response_obj.content
                ELSE <<"Error: ">> \o response_obj.message,
                ~ response_obj.success)

\* a tool that builds the ConvertRequest and converts without validating
ConvertUnvalidated(params, excel) ==
    IF ConvertRequestRaises(params.data, params.headers)
    THEN Raised(<<"ValidationError: ConvertRequest">>)
    ELSE [Returned(Converted(EncoderResponse(params, excel)))
            EXCEPT !.encoders = <<Encoded(EncoderName(params, excel), params.data)>>]

\* lines 217-231 and 238-252: validate, build the ConvertRequest, convert
ValidateAndConvert(params, excel) ==
    LET v == validate_data(params.data)
    IN IF ~ v[1] THEN Returned(ToolContent(<<"Error: ">> \o v[2], TRUE))
       ELSE IF ConvertRequestRaises(params.data, params.headers)
       THEN Raised(<<"ValidationError: ConvertRequest">>)
       ELSE [Returned(Converted(EncoderResponse(params, excel)))
               EXCEPT !.encoders = <<Encoded(EncoderName(params, excel), params.data)>>]

\* lines 211-259: the body of the inner try of tools/call
CallTool(params) ==
    IF params.name \in {"convert_to_csv", "convert_to_excel"}
    THEN IF params.args # "dict"
         THEN Raised(<<"AttributeError: object has no attribute 'get'">>)
         ELSE ValidateAndConvert(params, params.name = "convert_to_excel")
    ELSE Returned(ToolContent(<<"Unknown tool: ", params.name>>, TRUE))

\* a tools/call without the inner try block: an exception of the tool
\* reaches the except clause of the handler
ToolsCallRaisesThrough(body) ==
    LET r == CallTool(body.params)
    IN IF r.raised
       THEN MCPResponse(None, None,
                Some(ErrorObject(InternalError, <<"Internal error">>, Some(r.exc))))
       ELSE MCPResponse(body.id, Some(r.result), None)

\* a tools/call whose except clause adds an error object to its result
ToolsCallWithError(body) ==
    LET r == CallTool(body.params)
    IN IF r.raised
       THEN MCPResponse(body.id, Some(ToolContent(<<"Error: ">> \o r.exc, TRUE)),
                        Some(ErrorObject(InternalError, <<"Internal error">>, Some(r.exc))))
       ELSE MCPResponse(body.id, Some(r.result), None)

\* lines 206-271: tools/call; an exception of the inner try becomes a result
ToolsCallResponse(body) ==
    LET r == CallTool(body.params)
    IN IF r.raised
       THEN MCPResponse(body.id, Some(ToolContent(<<"Error: ">> \o r.exc, TRUE)), None)
       ELSE MCPResponse(body.id, Some(r.result), None)

\* the unknown method reported as a tool-level result
MethodNotFoundAsResult(body) ==
    MCPResponse(body.id,
        Some(ToolContent(<<"Method not found: ", body.method>>, TRUE)), None)

\* lines 273-278
MethodNotFoundResponse(body) ==
    MCPResponse(body.id, None,
        Some(ErrorObject(MethodNotFound, <<"Method not found: ", body.method>>, None)))

\* the internal error built without the exception text
InternalErrorWithoutData(exc) ==
    MCPResponse(None, None, Some(ErrorObject(InternalError, <<"Internal error">>, None)))

\* lines 282-287: the response of the outer except clause; it is built
\* without an id
InternalErrorResponse(exc) ==
    MCPResponse(None, None, Some(ErrorObject(InternalError, <<"Internal error">>, Some(exc))))

\* the exception raised by lines 154-155, if any
EnvelopeException(body) ==
    IF body.env = "undecodable" THEN Some(<<"JSONDecodeError">>)
    ELSE IF body.env = "invalid" THEN Some(<<"ValidationError: MCPRequest">>)
    ELSE None

\* lines 159-278: the response handed to send_message for a decoded request
DispatchResponse(body) ==
    IF body.method = "initialize" THEN MCPResponse(body.id, Some(InitializeResult), None)
    ELSE IF body.method = "tools/list" THEN MCPResponse(body.id, Some(ToolsListResult), None)
    ELSE IF body.method = "tools/call" THEN ToolsCallResponse(body)
    ELSE MethodNotFoundResponse(body)

\* lines 154-288: what the handler hands to send_message and what it returns
\* over HTTP once request.json() has resumed it
HandleBody(body) ==
    LET e == EnvelopeException(body)
    IN IF e # None
       THEN [response |-> InternalErrorResponse(e[1]), http |-> 200,
             status |-> "error", message |-> e[1], encoders |-> <<>>]
       ELSE [response |-> DispatchResponse(body), http |-> 200,
             status |-> "message_queued", message |-> <<>>,
             encoders |-> IF body.method = "tools/call"
                          THEN CallTool(body.params).encoders ELSE <<>>]

\* lines 150-152 and 282-288: the connection check failed.  The
\* HTTPException(status_code=404) is raised inside the try block and is an
\* Exception, so the except clause of line 282 catches it: the handler
\* returns a dict and the HTTP status is 200.
HandleUnknownConnection ==
    [response |-> InternalErrorResponse(<<"404: Connection not found">>), http |-> 200,
     status |-> "error", message |-> <<"404: Connection not found">>,
     encoders |-> <<>>]

\* ------------------------------------------------------------ the server
VARIABLES
    connections,  \* ConnectionManager.connections: the ids that are keys of the dict
    queue,        \* the asyncio.Queue created by connect(id): its items, oldest first
    opened,       \* number of GET /sse requests served so far
    pc,           \* where the event_generator of each connection is
    events,       \* the events each stream has yielded, oldest first
    pings,        \* number of timeouts taken so far
    how,          \* the way the generator of each connection ended
    sent,         \* the messages put on each queue by send_message, oldest first
    pending,      \* handle_messages calls suspended in request.json(), per target id
    posts,        \* number of POST /messages/{id} requests served so far
    lastPost,     \* the outcome of the POST handler that finished last
    fn,           \* a call of validate_data or of an encoder: its arguments and what it returned
    mgr,          \* the last call made on a ConnectionManager by a caller other than the server
    up,           \* a call of upload_and_share or upload_binary_and_share and the files it left
    tool          \* a call of a tool of fastmcp_server.py: its arguments and its outcome

vars == <<connections, queue, opened, pc, events, pings, how, sent, pending, posts, lastPost,
          fn, mgr, up, tool>>

serverVars ==
    <<connections, queue, opened, pc, events, pings, how, sent, pending, posts, lastPost>>

Table == DataList(<<Row(<<"a", "b">>), Row(<<"c", "d">>)>>)
Ragged == DataList(<<Row(<<"a", "b">>), Row(<<"c">>)>>)

\* the bodies the clients post to /messages/{id} in Spec: one request that
\* gets a result, one that gets a -32601 error, one that cannot be decoded
Bodies ==
    { Body("ok", Some("r1"), "initialize", NoParams),
      Body("ok", Some("r2"), "resources/list", NoParams),
      Body("undecodable", None, "", NoParams) }

\* the JSON-RPC ids and tools/call parameters the clients use in SpecDispatch
RequestIds == {None, Some("r1"), Some("r2")}

ToolParams ==
    { Params("convert_to_csv", "dict", Table, HeadersNone, FALSE),
      Params("convert_to_csv", "dict", Table, HeadersList(<<"h">>), FALSE),
      Params("convert_to_csv", "dict", DataList(<<>>), HeadersNone, FALSE),
      Params("convert_to_csv", "dict", Table, HeadersBad, FALSE),
      Params("convert_to_csv", "other", DataNull, HeadersNone, FALSE),
      Params("convert_to_excel", "dict", Table, HeadersList(<<"h", "k">>), TRUE),
      Params("convert_to_excel", "dict", Ragged, HeadersNone, FALSE),
      Params("no_such_tool", "dict", DataNull, HeadersNone, FALSE) }

\* the bodies the clients post in SpecDispatch
DispatchBodies ==
    { Body("undecodable", None, "", NoParams) }
      \cup { Body("invalid", id, "", NoParams) : id \in RequestIds }
      \cup { Body("ok", id, m, NoParams) :
               id \in RequestIds, m \in {"initialize", "tools/list", "resources/list"} }
      \cup { Body("ok", id, "tools/call", p) : id \in RequestIds, p \in ToolParams }

NoPost ==
    [conn |-> 0, known |-> FALSE, body |-> Body("undecodable", None, "", NoParams),
     response |-> None, http |-> 0, status |-> "none", enqueued |-> 0,
     sendRaised |-> FALSE, encoders |-> <<>>]

\* the events of a stream
EndpointEvent(c) == [type |-> "endpoint", connection_id |-> Some(c), message |-> None]
MessageEvent(m) == [type |-> "message", connection_id |-> None, message |-> Some(m)]
PingEvent == [type |-> "ping", connection_id |-> None, message |-> None]

\* no call of a tool function has been made
NoCall ==
    [op |-> "none", data |-> DataNull, headers |-> HeadersNone,
     valid |-> <<FALSE, <<>> >>,
     response |-> ConvertResponse(FALSE, <<>>, "", <<>>, <<>>)]

\* no call has been made on a ConnectionManager from outside the server
NoMgr == [op |-> "none", id |-> 0, known |-> FALSE, raised |-> FALSE, calls |-> 0]

\* -------------------------------------------------- NextcloudUploader
\* What the file system and the Nextcloud server do during one call, step by
\* step; a step the call does not reach is not consulted.
\*   create       tempfile.NamedTemporaryFile(..., delete=False)
\*   write        tmp_file.write(..) and the close at the end of the with block
\*   exists       os.path.exists(local_path)
\*   check        webdav_client.check(parent_folder)
\*   mkdir        webdav_client.mkdir(parent_folder)
\*   upload_sync  webdav_client.upload_sync(..)
\*   share        the OCS request and its answer: a url, no url, or an exception
\*   unlink       os.unlink(tmp_file_path)
Envs ==
    [create : {"ok", "raise"}, write : {"ok", "raise"}, exists : BOOLEAN,
     check : {"true", "false", "raise"}, mkdir : {"ok", "raise"},
     upload_sync : {"ok", "raise"}, share : {"url", "none", "raise"},
     unlink : {"ok", "raise"}]

\* the outcome of a function: whether it raised, what it returned, and the
\* steps it took in order
Done(raised, ok, steps) == [raised |-> raised, ok |-> ok, steps |-> steps]

\* lines 48-59: check is called outside the try block, mkdir inside it
create_remote_folder(env) ==
    IF env.check = "raise" THEN Done(TRUE, FALSE, <<"check">>)
    ELSE IF env.check = "true" THEN Done(FALSE, TRUE, <<"check">>)
    ELSE IF env.mkdir = "raise" THEN Done(FALSE, FALSE, <<"check", "mkdir">>)
    ELSE Done(FALSE, TRUE, <<"check", "mkdir">>)

\* an upload_file that reports success whatever upload_sync did
upload_file_unchecked(env) ==
    IF ~ env.exists THEN Done(FALSE, FALSE, <<"exists">>)
    ELSE LET folder == create_remote_folder(env)
         IN IF folder.raised THEN Done(TRUE, FALSE, <<"exists">> \o folder.steps)
            ELSE IF ~ folder.ok THEN Done(FALSE, FALSE, <<"exists">> \o folder.steps)
            ELSE Done(FALSE, TRUE, <<"exists">> \o folder.steps \o <<"upload_sync">>)

\* lines 61-78
upload_file(env) ==
    IF ~ env.exists THEN Done(FALSE, FALSE, <<"exists">>)
    ELSE LET folder == create_remote_folder(env)
         IN IF folder.raised THEN Done(TRUE, FALSE, <<"exists">> \o folder.steps)
            ELSE IF ~ folder.ok THEN Done(FALSE, FALSE, <<"exists">> \o folder.steps)
            ELSE IF env.upload_sync = "raise"
            THEN Done(FALSE, FALSE, <<"exists">> \o folder.steps \o <<"upload_sync">>)
            ELSE Done(FALSE, TRUE, <<"exists">> \o folder.steps \o <<"upload_sync">>)

\* lines 80-135: every exception is caught and turned into None
create_public_share(env) ==
    IF env.share = "url" THEN Some("https://nextcloud/s/token") ELSE None

\* what a call leaves: whether it raised, the tuple it returned, the state of
\* its temporary file ("none": never created) and the steps it took
Exit(raised, success, link, tmp, steps) ==
    [raised |-> raised, success |-> success, link |-> link, tmp |-> tmp,
     steps |-> steps]

\* lines 165-175 and 205-215: the finally clause; an exception of os.unlink
\* is logged and dropped.  A file that os.path.exists did not find is gone.
AfterUnlink(env) ==
    IF ~ env.exists \/ env.unlink = "ok" THEN "removed" ELSE "exists"

\* lines 149-175 and 189-215: the body that upload_and_share and
\* upload_binary_and_share have in common.  The temporary file is created
\* and written before the try block is entered.
TempFileUploadShare(env) ==
    IF env.create = "raise" THEN Exit(TRUE, FALSE, None, "none", <<"create">>)
    ELSE IF env.write = "raise"
    THEN Exit(TRUE, FALSE, None, "exists", <<"create", "write">>)
    ELSE LET uploaded == upload_file(env)
             share_link == create_public_share(env)
             before == <<"create", "write">> \o uploaded.steps
         IN IF uploaded.raised
            THEN Exit(TRUE, FALSE, None, AfterUnlink(env), before \o <<"unlink">>)
            ELSE IF ~ uploaded.ok
            THEN Exit(FALSE, FALSE, None, AfterUnlink(env), before \o <<"unlink">>)
            ELSE IF share_link # None
            THEN Exit(FALSE, TRUE, share_link, AfterUnlink(env),
                      before \o <<"share", "unlink">>)
            ELSE Exit(FALSE, FALSE, None, AfterUnlink(env),
                      before \o <<"share", "unlink">>)

\* NextcloudUploader.upload_and_share, lines 137-175
upload_and_share(env) == TempFileUploadShare(env)

\* NextcloudUploader.upload_binary_and_share, lines 177-215
upload_binary_and_share(env) == TempFileUploadShare(env)

\* no upload has been started
NoUpload ==
    [op |-> "none",
     env |-> [create |-> "ok", write |-> "ok", exists |-> TRUE, check |-> "true",
              mkdir |-> "ok", upload_sync |-> "ok", share |-> "url", unlink |-> "ok"],
     exit |-> Exit(FALSE, FALSE, None, "none", <<>>)]

\* ------------------------------------------------- fastmcp_server.py
\* line 22: nextcloud_uploader = NextcloudUploader(), the defaults of
\* nextcloud_uploader.py lines 17-19 (the password literal is not repeated)
DefaultUploader ==
    [nextcloud_url |-> "https://nextcloud-production-d834.up.railway.app",
     username |-> "admin", password |-> "default-password"]

\* NextcloudUploader(nextcloud_url, username, password), lines 17-31
NextcloudUploader(nextcloud_url, username, password) ==
    [nextcloud_url |-> nextcloud_url, username |-> username, password |-> password]

\* the optional arguments nextcloud_url, username, password of a call: None,
\* the empty string, or a value
Credentials(nextcloud_url, username, password) ==
    [nextcloud_url |-> nextcloud_url, username |-> username, password |-> password]

NoCredentials == Credentials(None, None, None)

\* the truth value of an Optional[str]
Truthy(arg) == arg # None /\ arg[1] # ""

\* a selection that builds the per-call uploader as soon as one of the three
\* arguments is given
UploaderForAny(creds) ==
    IF Truthy(creds.nextcloud_url) \/ Truthy(creds.username) \/ Truthy(creds.password)
    THEN NextcloudUploader(IF creds.nextcloud_url = None THEN "" ELSE creds.nextcloud_url[1],
                           IF creds.username = None THEN "" ELSE creds.username[1],
                           IF creds.password = None THEN "" ELSE creds.password[1])
    ELSE DefaultUploader

\* lines 208-210, 253-255, 288-290: the uploader a call uses
UploaderFor(creds) ==
    IF Truthy(creds.nextcloud_url) /\ Truthy(creds.username) /\ Truthy(creds.password)
    THEN NextcloudUploader(creds.nextcloud_url[1], creds.username[1], creds.password[1])
    ELSE DefaultUploader

\* the outcome of a tool: whether it raised and with what text, the value it
\* returned, the encoders it invoked and the calls it made on an uploader
\* (with what the uploader did), each in order
ToolOut(raised, error, value, encoders, uploads) ==
    [raised |-> raised, error |-> error, value |-> value, encoders |-> encoders,
     uploads |-> uploads]

UploadCall(method, uploader, content, exit) ==
    [method |-> method, uploader |-> uploader, content |-> content, exit |-> exit]

\* lines 42-54: the body of the tool convert_to_csv
mcp_convert_to_csv(data, headers) ==
    LET v == validate_data(data)
    IN IF ~ v[1] THEN ToolOut(TRUE, <<"Invalid data: ">> \o v[2], <<>>, <<>>, <<>>)
       ELSE IF ConvertRequestRaises(data, headers)
       THEN ToolOut(TRUE, <<"ValidationError: ConvertRequest">>, <<>>, <<>>, <<>>)
       ELSE LET response == convert_to_csv(ConvertRequest(data, headers, <<"data">>))
                encoders == <<Encoded("convert_to_csv", data)>>
            IN IF ~ response.success
               THEN ToolOut(TRUE, <<"Conversion failed: ">> \o response.message, <<>>,
                            encoders, <<>>)
               ELSE ToolOut(FALSE, <<>>, response.content, encoders, <<>>)

\* lines 75-91: _convert_to_excel
mcp_convert_to_excel(data, headers, styled) ==
    LET v == validate_data(data)
    IN IF ~ v[1] THEN ToolOut(TRUE, <<"Invalid data: ">> \o v[2], <<>>, <<>>, <<>>)
       ELSE IF ConvertRequestRaises(data, headers)
       THEN ToolOut(TRUE, <<"ValidationError: ConvertRequest">>, <<>>, <<>>, <<>>)
       ELSE LET request == ConvertRequest(data, headers, <<"data">>)
                response == IF styled THEN convert_to_excel_with_styling(request)
                            ELSE convert_to_excel(request)
                encoders == <<Encoded(IF styled THEN "convert_to_excel_with_styling"
                                      ELSE "convert_to_excel", data)>>
            IN IF ~ response.success
               THEN ToolOut(TRUE, <<"Conversion failed: ">> \o response.message, <<>>,
                            encoders, <<>>)
               ELSE ToolOut(FALSE, <<>>, response.content, encoders, <<>>)

\* base64.b64decode of the content of an Excel encoder: the workbook's bytes
B64Decode(content) ==
    IF content # <<>> /\ Head(content) = "base64(xlsx"
    THEN <<"xlsx">> \o SubSeq(content, 2, Len(content) - 1)
    ELSE content

\* an upload tool that hands back the content when the upload failed
UploadedOrContent(exit, uploads, encoders, what) ==
    IF exit.raised
    THEN ToolOut(TRUE, <<"exception of the storage client">>, <<>>, encoders, uploads)
    ELSE IF exit.success /\ exit.link # None /\ exit.link # Some("")
    THEN ToolOut(FALSE, <<>>, exit.link, encoders, uploads)
    ELSE ToolOut(FALSE, <<>>, uploads[1].content, encoders, uploads)

\* lines 213-219, 258-264, 293-299: the share link is returned if the
\* uploader returned success and a non-empty link, else ValueError is raised;
\* an exception of the uploader passes through
Uploaded(exit, uploads, encoders, what) ==
    IF exit.raised
    THEN ToolOut(TRUE, <<"exception of the storage client">>, <<>>, encoders, uploads)
    ELSE IF exit.success /\ exit.link # None /\ exit.link # Some("")
    THEN ToolOut(FALSE, <<>>, exit.link, encoders, uploads)
    ELSE ToolOut(TRUE, <<"Failed to upload ", what, " to Nextcloud or create share link">>,
                 <<>>, encoders, uploads)

\* lines 180-219.  `callable`: whether the name convert_to_csv, bound to what
\* the decorator @mcp.tool returned (line 25), can be called as a function;
\* that depends on the installed fastmcp, which returns either the function
\* or a tool object.
convert_to_csv_and_upload(data, headers, creds, callable, env) ==
    IF ~ callable
    THEN ToolOut(TRUE, <<"TypeError: object is not callable">>, <<>>, <<>>, <<>>)
    ELSE LET csv == mcp_convert_to_csv(data, headers)
         IN IF csv.raised THEN csv
            ELSE Uploaded(upload_and_share(env),
                          <<UploadCall("upload_and_share", UploaderFor(creds), csv.value,
                                       upload_and_share(env))>>,
                          csv.encoders, "CSV file")

\* a tool that uploads whatever the conversion left, failed or not
excel_and_upload_regardless(data, headers, styled, creds, env) ==
    LET excel == mcp_convert_to_excel(data, headers, styled)
    IN Uploaded(upload_binary_and_share(env),
                <<UploadCall("upload_binary_and_share", UploaderFor(creds),
                             B64Decode(excel.value), upload_binary_and_share(env))>>,
                excel.encoders, "Excel file")

\* lines 222-264
convert_to_excel_and_upload(data, headers, styled, creds, env) ==
    LET excel == mcp_convert_to_excel(data, headers, styled)
    IN IF excel.raised THEN excel
       ELSE Uploaded(upload_binary_and_share(env),
                     <<UploadCall("upload_binary_and_share", UploaderFor(creds),
                                  B64Decode(excel.value), upload_binary_and_share(env))>>,
                     excel.encoders, "Excel file")

\* lines 267-299
upload_csv_to_nextcloud(csv_content, creds, env) ==
    Uploaded(upload_and_share(env),
             <<UploadCall("upload_and_share", UploaderFor(creds), csv_content,
                          upload_and_share(env))>>,
             <<>>, "CSV content")

\* the arguments of a tool call and what the libraries and services do
\* during it
ToolArgs(data, headers, styled, csv_content, creds, callable, env) ==
    [data |-> data, headers |-> headers, styled |-> styled, csv_content |-> csv_content,
     creds |-> creds, callable |-> callable, env |-> env]

\* no tool of fastmcp_server.py has been called
NoTool ==
    [op |-> "none",
     args |-> ToolArgs(DataNull, HeadersNone, FALSE, <<>>, NoCredentials, TRUE, NoUpload.env),
     out |-> ToolOut(FALSE, <<>>, <<>>, <<>>, <<>>),
     default |-> DefaultUploader]

\* the server after the module is loaded: no connection, no request served
ServerIdle ==
    /\ connections = {}
    /\ queue = [c \in ConnIds |-> <<>>]
    /\ opened = 0
    /\ pc = [c \in ConnIds |-> "unborn"]
    /\ events = [c \in ConnIds |-> <<>>]
    /\ pings = 0
    /\ how = [c \in ConnIds |-> "running"]
    /\ sent = [c \in ConnIds |-> <<>>]
    /\ pending = [c \in ConnIds |-> 0]
    /\ posts = 0
    /\ lastPost = NoPost

Init ==
    /\ ServerIdle
    /\ fn = NoCall
    /\ mgr = NoMgr
    /\ up = NoUpload
    /\ tool = NoTool

\* line 73: the module's session storage, a dict that no line of the module
\* writes to
sessions == {}

\* GET /health, lines 92-99 (the timestamp is left out)
health == [status |-> "healthy", sessions |-> Cardinality(sessions)]

\* ConnectionManager.connect: the keys of the dict afterwards
Connect(conns, c) == conns \cup {c}

\* a disconnect that deletes the key without looking it up first: KeyError
\* for an id that is no key
DisconnectRaisesOnUnknown(conns, c) == c \notin conns

\* ConnectionManager.disconnect: whether the call raises.  The del of line 43
\* is guarded by the membership test of line 42.
DisconnectRaises(conns, c) == FALSE

\* a disconnect that clears the whole dict
DisconnectAll(conns, c) == {}

\* ConnectionManager.disconnect: the keys of the dict afterwards
Disconnect(conns, c) == IF c \in conns THEN conns \ {c} ELSE conns

\* ConnectionManager.send_message: the number of items it puts on the queue
\* of c
SendCount(conns, c) == IF c \in conns THEN 1 ELSE 0

\* ConnectionManager.send_message: whether the call raises.  For an id that
\* is no key it logs a warning (line 52) and returns None like a successful
\* call.
SendRaises(conns, c) == FALSE

\* a put that inserts at the head of the queue
QueuePutFront(q, m) == <<m>> \o q

\* asyncio.Queue.put: the items of the queue afterwards
QueuePut(q, m) == Append(q, m)

\* a send_message that puts the message on the queue of every connection
SendMessageBroadcast(conns, qs, c, m) ==
    [d \in ConnIds |-> IF d \in conns THEN QueuePut(qs[d], m) ELSE qs[d]]

\* ConnectionManager.send_message: the queues afterwards
SendMessage(conns, qs, c, m) ==
    IF c \in conns THEN [qs EXCEPT ![c] = QueuePut(qs[c], m)] ELSE qs

\* GET /sse, lines 104-105 and 143: a fresh id is registered with a new queue
\* and the response is returned around a generator that has not started
SseOpen ==
    /\ opened + posts < MaxRequests
    /\ LET c == opened + 1
       IN /\ connections' = Connect(connections, c)
          /\ queue' = [queue EXCEPT ![c] = <<>>]
          /\ pc' = [pc EXCEPT ![c] = "created"]
    /\ opened' = opened + 1
    /\ UNCHANGED <<events, pings, how, sent, pending, posts, lastPost, fn, mgr, up, tool>>

\* a generator that enters its loop without the endpoint event
GenStartNoEndpoint(c) ==
    /\ pc[c] = "created"
    /\ pc' = [pc EXCEPT ![c] = "waiting"]
    /\ UNCHANGED <<connections, queue, opened, events, pings, how, sent, pending, posts, lastPost, fn, mgr, up, tool>>

\* lines 108-116: the generator starts and yields the endpoint event
GenStart(c) ==
    /\ pc[c] = "created"
    /\ events' = [events EXCEPT ![c] = Append(@, EndpointEvent(c))]
    /\ pc' = [pc EXCEPT ![c] = "yield_endpoint"]
    /\ UNCHANGED <<connections, queue, opened, pings, how, sent, pending, posts, lastPost, fn, mgr, up, tool>>

\* the response is discarded before its body iterator is started (the client
\* is gone before the first event): no line of event_generator ever runs
GenAbandon(c) ==
    /\ pc[c] = "created"
    /\ pc' = [pc EXCEPT ![c] = "abandoned"]
    /\ UNCHANGED <<connections, queue, opened, events, pings, how, sent, pending, posts, lastPost, fn, mgr, up, tool>>

AtYield(c) == pc[c] \in {"yield_endpoint", "yield_message", "yield_ping"}

\* lines 119-121: the consumer asks for the next event, the loop waits on the queue
GenWait(c) ==
    /\ AtYield(c)
    /\ pc' = [pc EXCEPT ![c] = "waiting"]
    /\ UNCHANGED <<connections, queue, opened, events, pings, how, sent, pending, posts, lastPost, fn, mgr, up, tool>>

\* a loop that takes the oldest item off the queue and waits again without
\* yielding it
GenMessageDropped(c) ==
    /\ pc[c] = "waiting"
    /\ queue[c] # <<>>
    /\ queue' = [queue EXCEPT ![c] = Tail(@)]
    /\ UNCHANGED <<connections, opened, pc, events, pings, how, sent, pending, posts, lastPost, fn, mgr, up, tool>>

\* lines 121-123: queue.get() returns the oldest item, which is yielded
GenMessage(c) ==
    /\ pc[c] = "waiting"
    /\ queue[c] # <<>>
    /\ events' = [events EXCEPT ![c] = Append(@, MessageEvent(Head(queue[c])))]
    /\ queue' = [queue EXCEPT ![c] = Tail(@)]
    /\ pc' = [pc EXCEPT ![c] = "yield_message"]
    /\ UNCHANGED <<connections, opened, pings, how, sent, pending, posts, lastPost, fn, mgr, up, tool>>

\* a timeout that can fire although an item is queued
TimeoutAtAnyTime(q) == TRUE

\* asyncio.wait_for(queue.get(), timeout=30.0) raises TimeoutError only while
\* get() is still blocked, that is while the queue is empty
TimeoutCanFire(q) == q = <<>>

\* a TimeoutError handled like the other exceptions of the wait: the loop
\* breaks
PcAfterTimeoutBreak(p, c) == [p EXCEPT ![c] = "closed"]

\* lines 124-128: the except clause of TimeoutError yields a ping inside the
\* loop, which goes on when the consumer asks for the next event
PcAfterTimeout(p, c) == [p EXCEPT ![c] = "yield_ping"]

\* lines 121 and 124-128: the wait timed out, a ping is yielded
Timeout(c) ==
    /\ pc[c] = "waiting"
    /\ TimeoutCanFire(queue[c])
    /\ events' = [events EXCEPT ![c] = Append(@, PingEvent)]
    /\ pings' = pings + 1
    /\ pc' = PcAfterTimeout(pc, c)
    /\ UNCHANGED <<connections, queue, opened, how, sent, pending, posts, lastPost, fn, mgr, up, tool>>

\* a timeout, while the number of timeouts taken is below MaxPings
GenTimeout(c) ==
    /\ pings < MaxPings
    /\ Timeout(c)

\* an exit path that does not reach the disconnect call
CleanupSkipped(conns, c) == conns

\* lines 139-141: the finally clause
Cleanup(conns, c) == Disconnect(conns, c)

\* lines 129-134 then 139-141: the wait is cancelled or fails, the loop
\* breaks and the finally clause runs
GenBreak(c) ==
    /\ pc[c] = "waiting"
    /\ how' = [how EXCEPT ![c] = "break"]
    /\ connections' = Cleanup(connections, c)
    /\ pc' = [pc EXCEPT ![c] = "closed"]
    /\ UNCHANGED <<queue, opened, events, pings, sent, pending, posts, lastPost, fn, mgr, up, tool>>

\* lines 135-141: the generator is closed or cancelled, or the consumer
\* throws, while it is suspended at a yield; the finally clause runs
GenClose(c) ==
    /\ AtYield(c)
    /\ how' = [how EXCEPT ![c] = "closed_at_yield"]
    /\ connections' = Cleanup(connections, c)
    /\ pc' = [pc EXCEPT ![c] = "closed"]
    /\ UNCHANGED <<queue, opened, events, pings, sent, pending, posts, lastPost, fn, mgr, up, tool>>

\* what a finished handler leaves behind: the response it handed to
\* send_message, whether that was put on the queue, and the HTTP answer
Outcome(c, known, body, h, conns) ==
    [conn |-> c, known |-> known, body |-> body, response |-> Some(h.response),
     http |-> h.http, status |-> h.status, enqueued |-> SendCount(conns, c),
     sendRaised |-> SendRaises(conns, c), encoders |-> h.encoders]

\* POST /messages/{c}, lines 148-154 (and 282-288 when the check fails)
PostArrive(c) ==
    /\ opened + posts < MaxRequests
    /\ posts' = posts + 1
    /\ IF c \in connections
       THEN /\ pending' = [pending EXCEPT ![c] = @ + 1]
            /\ UNCHANGED <<queue, sent, lastPost>>
       ELSE LET h == HandleUnknownConnection
            IN /\ queue' = SendMessage(connections, queue, c, h.response)
               /\ sent' = [sent EXCEPT ![c] =
                              IF SendCount(connections, c) = 1 THEN Append(@, h.response) ELSE @]
               /\ lastPost' = Outcome(c, FALSE, NoPost.body, h, connections)
               /\ UNCHANGED pending
    /\ UNCHANGED <<connections, opened, pc, events, pings, how, fn, mgr, up, tool>>

\* lines 154-288: request.json() resumes the handler with the body (or raises)
PostHandle(c, body) ==
    /\ pending[c] > 0
    /\ pending' = [pending EXCEPT ![c] = @ - 1]
    /\ LET h == HandleBody(body)
       IN /\ queue' = SendMessage(connections, queue, c, h.response)
          /\ sent' = [sent EXCEPT ![c] =
                         IF SendCount(connections, c) = 1 THEN Append(@, h.response) ELSE @]
          /\ lastPost' = Outcome(c, TRUE, body, h, connections)
    /\ UNCHANGED <<connections, opened, pc, events, pings, how, posts, fn, mgr, up, tool>>

Next ==
    \/ SseOpen
    \/ \E c \in ConnIds : GenStart(c)
    \/ \E c \in ConnIds : GenAbandon(c)
    \/ \E c \in ConnIds : GenWait(c)
    \/ \E c \in ConnIds : GenMessage(c)
    \/ \E c \in ConnIds : GenTimeout(c)
    \/ \E c \in ConnIds : GenBreak(c)
    \/ \E c \in ConnIds : GenClose(c)
    \/ \E c \in ConnIds : PostArrive(c)
    \/ \E c \in ConnIds, body \in Bodies : PostHandle(c, body)

Spec == Init /\ [][Next]_vars

\* One request at a time, with every kind of body: the dispatcher's answers
\* under every interleaving with the stream of the connection.
NextDispatch ==
    \/ opened + posts < DispatchRequests /\ SseOpen
    \/ \E c \in ConnIds : GenStart(c)
    \/ \E c \in ConnIds : GenWait(c)
    \/ \E c \in ConnIds : GenMessage(c)
    \/ \E c \in ConnIds : GenBreak(c)
    \/ \E c \in ConnIds : GenClose(c)
    \/ \E c \in ConnIds : opened + posts < DispatchRequests /\ PostArrive(c)
    \/ \E c \in ConnIds, body \in DispatchBodies : PostHandle(c, body)

SpecDispatch == Init /\ [][NextDispatch]_vars

\* the bodies posted in SpecErrors: tools/call requests whose encoder raises
\* or whose ConvertRequest cannot be built, and a request that is served
WithFormFeed == DataList(<<Row(<<"a", "\f">>)>>)

ErrorBodies ==
    { Body("ok", Some("r1"), "tools/call",
           Params("convert_to_excel", "dict", WithFormFeed, HeadersNone, FALSE)),
      Body("ok", Some("r2"), "tools/call",
           Params("convert_to_excel", "dict", WithFormFeed, HeadersNone, TRUE)),
      Body("ok", Some("r3"), "tools/call",
           Params("convert_to_csv", "dict", Table, HeadersBad, FALSE)),
      Body("ok", Some("r4"), "tools/call",
           Params("convert_to_csv", "dict", WithFormFeed, HeadersNone, FALSE)) }

\* Two posts on a connection, the first of which may fail inside its tool.
NextErrors ==
    \/ opened + posts < ErrorRequests /\ SseOpen
    \/ \E c \in ConnIds : GenStart(c)
    \/ \E c \in ConnIds : GenWait(c)
    \/ \E c \in ConnIds : GenMessage(c)
    \/ \E c \in ConnIds : GenBreak(c)
    \/ \E c \in ConnIds : GenClose(c)
    \/ \E c \in ConnIds : opened + posts < ErrorRequests /\ PostArrive(c)
    \/ \E c \in ConnIds, body \in ErrorBodies : PostHandle(c, body)

SpecErrors == Init /\ [][NextErrors]_vars

\* Few requests and several timeouts: the streaming loop of a connection
\* through consecutive heartbeats, with posts before, between and after them.
NextStream ==
    \/ opened + posts < StreamRequests /\ SseOpen
    \/ \E c \in ConnIds : GenStart(c)
    \/ \E c \in ConnIds : GenWait(c)
    \/ \E c \in ConnIds : GenMessage(c)
    \/ \E c \in ConnIds : pings < StreamPings /\ Timeout(c)
    \/ \E c \in ConnIds : GenBreak(c)
    \/ \E c \in ConnIds : GenClose(c)
    \/ \E c \in ConnIds : opened + posts < StreamRequests /\ PostArrive(c)
    \/ \E c \in ConnIds, body \in Bodies : PostHandle(c, body)

SpecStream == Init /\ [][NextStream]_vars

\* Streams with posts and heartbeats, and streams that are never iterated,
\* under a fair scheduling of the streaming loop: the consumer of a response asks for
\* its first and for its next event unless the stream is abandoned or closed
\* (sse-starlette iterates the body as long as the client is connected), and
\* the event loop resumes a wait_for whose queue holds an item unless the
\* wait is cancelled.  Nothing is assumed about clients: they need not post,
\* and may close a stream at any time.
NextLive ==
    \/ opened + posts < LiveRequests /\ SseOpen
    \/ \E c \in ConnIds : GenStart(c)
    \/ \E c \in ConnIds : GenAbandon(c)
    \/ \E c \in ConnIds : GenWait(c)
    \/ \E c \in ConnIds : GenMessage(c)
    \/ \E c \in ConnIds : pings < LivePings /\ Timeout(c)
    \/ \E c \in ConnIds : GenBreak(c)
    \/ \E c \in ConnIds : GenClose(c)
    \/ \E c \in ConnIds : opened + posts < LiveRequests /\ PostArrive(c)
    \/ \E c \in ConnIds, body \in Bodies : PostHandle(c, body)

Fairness ==
    \A c \in ConnIds :
        /\ WF_vars(GenStart(c))
        /\ WF_vars(GenWait(c))
        /\ WF_vars(GenMessage(c))

SpecLive == Init /\ [][NextLive]_vars /\ Fairness

\* ------------------------------------------------ the ConnectionManager
\* A ConnectionManager driven through its three methods by any caller, with
\* any id in any order: the class by itself, without the endpoints.
MgrMessage == MCPResponse(Some("r1"), Some(InitializeResult), None)

MgrCalled(op, c, raised) ==
    /\ mgr.calls < MaxCalls
    /\ mgr' = [op |-> op, id |-> c, known |-> c \in connections, raised |-> raised,
               calls |-> mgr.calls + 1]
    /\ UNCHANGED <<opened, pc, events, pings, how, pending, posts, lastPost, fn, up, tool>>

\* lines 34-39: connect(connection_id) stores a new queue under the id
MgrConnect(c) ==
    /\ MgrCalled("connect", c, FALSE)
    /\ connections' = Connect(connections, c)
    /\ queue' = [queue EXCEPT ![c] = <<>>]
    /\ UNCHANGED sent

\* lines 41-45: disconnect(connection_id)
MgrDisconnect(c) ==
    /\ MgrCalled("disconnect", c, DisconnectRaises(connections, c))
    /\ connections' = Disconnect(connections, c)
    /\ UNCHANGED <<queue, sent>>

\* lines 47-52: send_message(connection_id, message)
MgrSendMessage(c) ==
    /\ MgrCalled("send_message", c, SendRaises(connections, c))
    /\ queue' = SendMessage(connections, queue, c, MgrMessage)
    /\ sent' = [sent EXCEPT ![c] =
                   IF SendCount(connections, c) = 1 THEN Append(@, MgrMessage) ELSE @]
    /\ UNCHANGED connections

NextManager ==
    \/ \E c \in ConnIds : MgrConnect(c)
    \/ \E c \in ConnIds : MgrDisconnect(c)
    \/ \E c \in ConnIds : MgrSendMessage(c)

SpecManager == Init /\ [][NextManager]_vars

\* ------------------------------------------------- the tool functions
\* The arguments of validate_data and of the encoders: every JSON value a
\* client can send for `data` with at most MaxRows rows of at most MaxCols
\* cells, and for `headers` None, a value that is no list of strings, and
\* every list of at most MaxCols + 1 names.
Cells == {"a", "b"}

SeqsUpTo(S, n) == UNION {[1..k -> S] : k \in 0..n}

Rows == {Row(cells) : cells \in SeqsUpTo(Cells, MaxCols)} \cup {NotARow}

Datas == {DataNull, DataString} \cup {DataList(rows) : rows \in SeqsUpTo(Rows, MaxRows)}

Headers ==
    {HeadersNone, HeadersBad}
      \cup {HeadersList(names) : names \in SeqsUpTo({"h"}, MaxCols + 1)}

InitTools ==
    /\ ServerIdle
    /\ fn \in {[NoCall EXCEPT !.data = d, !.headers = h] : d \in Datas, h \in Headers}
    /\ mgr = NoMgr
    /\ up = NoUpload
    /\ tool = NoTool

\* is_valid, error_msg = CSVConverter.validate_data(data)
CallValidateData ==
    /\ fn.op = "none"
    /\ fn' = [fn EXCEPT !.op = "validate_data", !.valid = validate_data(fn.data)]
    /\ UNCHANGED <<serverVars, mgr, up, tool>>

\* The callers of the encoders (simple_remote_server.py lines 217-227 and
\* 238-248, fastmcp_server.py) validate the data and build the
\* ConvertRequest first: an encoder runs on validated data only.
CanEncode ==
    /\ fn.op = "none"
    /\ validate_data(fn.data)[1]
    /\ ~ ConvertRequestRaises(fn.data, fn.headers)

CallEncoder(op, response) ==
    /\ CanEncode
    /\ fn' = [fn EXCEPT !.op = op, !.valid = validate_data(fn.data),
                        !.response = response]
    /\ UNCHANGED <<serverVars, mgr, up, tool>>

CallConvertToCsv ==
    CallEncoder("convert_to_csv",
                convert_to_csv(ConvertRequest(fn.data, fn.headers, <<"data">>)))

CallConvertToExcel ==
    CallEncoder("convert_to_excel",
                convert_to_excel(ConvertRequest(fn.data, fn.headers, <<"data">>)))

CallConvertToExcelWithStyling ==
    CallEncoder("convert_to_excel_with_styling",
                convert_to_excel_with_styling(ConvertRequest(fn.data, fn.headers, <<"data">>)))

NextTools ==
    \/ CallValidateData
    \/ CallConvertToCsv
    \/ CallConvertToExcel
    \/ CallConvertToExcelWithStyling

SpecTools == InitTools /\ [][NextTools]_vars

\* ------------------------------------------------------ CSV encoding
\* convert_to_csv on every rectangular data of at most MaxRows rows and
\* 1..MaxCols columns whose cells are strings (one with a comma), numbers
\* and None, with no headers.
CsvCells == {"a", "x,y", "1", "2.5", "null"}

CsvRows(width) == {Row(cells) : cells \in [1..width -> CsvCells]}

CsvDatas ==
    UNION {{DataList(rows) : rows \in [1..n -> CsvRows(width)]} :
              n \in 1..MaxRows, width \in 1..MaxCols}

InitCsv ==
    /\ ServerIdle
    /\ fn \in {[NoCall EXCEPT !.data = d] : d \in CsvDatas}
    /\ mgr = NoMgr
    /\ up = NoUpload
    /\ tool = NoTool

NextCsv == CallConvertToCsv

SpecCsv == InitCsv /\ [][NextCsv]_vars

\* ----------------------------------------------------- the uploader
\* One call of each upload method, under every behaviour of the file system
\* and of the Nextcloud server.
UploadCalled(op, env, exit) ==
    /\ up.op = "none"
    /\ up' = [op |-> op, env |-> env, exit |-> exit]
    /\ UNCHANGED <<serverVars, fn, mgr, tool>>

CallUploadAndShare(env) ==
    UploadCalled("upload_and_share", env, upload_and_share(env))

CallUploadBinaryAndShare(env) ==
    UploadCalled("upload_binary_and_share", env, upload_binary_and_share(env))

NextUpload ==
    \/ \E env \in Envs : CallUploadAndShare(env)
    \/ \E env \in Envs : CallUploadBinaryAndShare(env)

SpecUpload == Init /\ [][NextUpload]_vars

\* -------------------------------------------------- the FastMCP tools
\* One call of each tool of fastmcp_server.py, with every combination of the
\* optional credentials and under the behaviours of the Nextcloud server.
ToolDatas == {Table, Ragged, DataList(<<>>), WithFormFeed}

ToolHeaders == {HeadersNone, HeadersList(<<"h">>), HeadersList(<<"h", "k">>), HeadersBad}

ToolCredentials ==
    { Credentials(u, n, p) : u \in {None, Some(""), Some("https://cloud.example")},
                             n \in {None, Some(""), Some("alice")},
                             p \in {None, Some(""), Some("secret")} }

ToolEnvs ==
    { env \in Envs : /\ env.create = "ok" /\ env.write = "ok" /\ env.exists
                     /\ env.mkdir = "ok" /\ env.unlink = "ok"
                     /\ env.check # "false" /\ env.share # "raise" }

CsvContents == {<<>>, <<"a", ",", "b", "\n">>}

ToolCalled(op, args, out) ==
    /\ tool.op = "none"
    /\ tool' = [op |-> op, args |-> args, out |-> out, default |-> tool.default]
    /\ UNCHANGED <<serverVars, fn, mgr, up>>

\* the tool convert_to_csv
ToolConvertToCsv(data, headers) ==
    ToolCalled("convert_to_csv",
               ToolArgs(data, headers, FALSE, <<>>, NoCredentials, TRUE, NoUpload.env),
               mcp_convert_to_csv(data, headers))

\* the tool convert_to_excel, lines 94-112
ToolConvertToExcel(data, headers, styled) ==
    ToolCalled("convert_to_excel",
               ToolArgs(data, headers, styled, <<>>, NoCredentials, TRUE, NoUpload.env),
               mcp_convert_to_excel(data, headers, styled))

ToolConvertToCsvAndUpload(data, headers, creds, callable, env) ==
    ToolCalled("convert_to_csv_and_upload",
               ToolArgs(data, headers, FALSE, <<>>, creds, callable, env),
               convert_to_csv_and_upload(data, headers, creds, callable, env))

ToolConvertToExcelAndUpload(data, headers, styled, creds, env) ==
    ToolCalled("convert_to_excel_and_upload",
               ToolArgs(data, headers, styled, <<>>, creds, TRUE, env),
               convert_to_excel_and_upload(data, headers, styled, creds, env))

ToolUploadCsvToNextcloud(csv_content, creds, env) ==
    ToolCalled("upload_csv_to_nextcloud",
               ToolArgs(DataNull, HeadersNone, FALSE, csv_content, creds, TRUE, env),
               upload_csv_to_nextcloud(csv_content, creds, env))

NextFastMcp ==
    \/ \E data \in ToolDatas, headers \in ToolHeaders : ToolConvertToCsv(data, headers)
    \/ \E data \in ToolDatas, headers \in ToolHeaders, styled \in BOOLEAN :
          ToolConvertToExcel(data, headers, styled)
    \/ \E data \in ToolDatas, headers \in ToolHeaders, creds \in ToolCredentials,
          callable \in BOOLEAN, env \in ToolEnvs :
          ToolConvertToCsvAndUpload(data, headers, creds, callable, env)
    \/ \E data \in ToolDatas, headers \in ToolHeaders, styled \in BOOLEAN,
          creds \in ToolCredentials, env \in ToolEnvs :
          ToolConvertToExcelAndUpload(data, headers, styled, creds, env)
    \/ \E csv_content \in CsvContents, creds \in ToolCredentials, env \in ToolEnvs :
          ToolUploadCsvToNextcloud(csv_content, creds, env)

SpecFastMcp == Init /\ [][NextFastMcp]_vars

\* The two servers of the repository are two processes: a behaviour is a run
\* of the SSE server or a call of a FastMCP tool.
NextValidation ==
    \/ tool.op = "none" /\ NextDispatch
    \/ ServerIdle /\ NextFastMcp

SpecValidation == Init /\ [][NextValidation]_vars

\* ------------------------------------------------------------ properties
IsMessageEvent(e) == e.type = "message"

\* the responses a stream has emitted, oldest first
StreamMessages(c) ==
    LET es == SelectSeq(events[c], IsMessageEvent)
    IN [i \in 1..Len(es) |-> es[i].message[1]]

\* s can be obtained from t by leaving items out: the items of s appear in
\* t in the same order
RECURSIVE IsSubsequence(_, _)
IsSubsequence(s, t) ==
    IF s = <<>> THEN TRUE
    ELSE IF t = <<>> THEN FALSE
    ELSE IF Head(s) = Head(t) THEN IsSubsequence(Tail(s), Tail(t))
    ELSE IsSubsequence(s, Tail(t))

PostFinished == lastPost.status # "none"

\* the last handler ran on a connection that passed the check of line 150
PostOnKnown == PostFinished /\ lastPost.known

LastResponse == lastPost.response[1]

HasErrorCode(response, code) ==
    /\ HasField(response, "error")
    /\ response.error[1].code = code

\* C1: per connection, the responses emitted on the stream appear in the
\* order in which send_message put them on the queue.
C1_PerConnectionFifo ==
    \A c \in ConnIds : IsSubsequence(StreamMessages(c), sent[c])

\* two different responses were put on one queue and both were emitted
C1_Witness ==
    \E c \in ConnIds :
        /\ Len(StreamMessages(c)) >= 2
        /\ StreamMessages(c)[1] # StreamMessages(c)[2]

\* C2: once the generator of a connection has ended, whichever way, its id
\* is no key of the connections mapping.
C2_ClosedIsReleased ==
    \A c \in ConnIds : pc[c] = "closed" => c \notin connections

\* one generator ended while waiting on the queue, another at a yield
C2_Witness ==
    \E c, d \in ConnIds :
        /\ pc[c] = "closed" /\ how[c] = "break"
        /\ pc[d] = "closed" /\ how[d] = "closed_at_yield"

\* C3 (the claim as stated): a send_message call that puts nothing on a
\* queue, because the id is no key of the mapping, raises to its caller.
C3_UnknownIdRaises ==
    (PostFinished /\ lastPost.enqueued = 0) => lastPost.sendRaised

\* C4 (the claim as stated): a POST for an id that is no key of the mapping
\* is answered with HTTP 404 and puts nothing on a queue.
C4_UnknownIdIs404 ==
    (PostFinished /\ ~ lastPost.known) => (lastPost.http = 404 /\ lastPost.enqueued = 0)

\* C5 (the claim as stated): a handler that passed the connection check puts
\* exactly one response on the queue of that connection.
C5_ExactlyOneResponse ==
    PostOnKnown => lastPost.enqueued = 1

\* C6 (the claim as stated): the response built for a request that supplied
\* an id carries that id.
C6_ResponseCopiesId ==
    (PostOnKnown /\ lastPost.body.id # None) => LastResponse.id = lastPost.body.id

C8_EndpointFirstAndOnce ==
    \A c \in ConnIds :
        /\ events[c] # <<>> => events[c][1] = EndpointEvent(c)
        /\ \A i \in 2..Len(events[c]) : events[c][i].type # "endpoint"
        /\ pc[c] \in {"yield_endpoint", "yield_message", "yield_ping", "waiting"}
              => events[c] # <<>>

\* the endpoint event has been emitted, and nothing else, although a
\* response is already waiting on the queue of the connection
C8_Witness ==
    \E c \in ConnIds :
        /\ pc[c] = "yield_endpoint"
        /\ events[c] = <<EndpointEvent(c)>>
        /\ queue[c] # <<>>

\* C9: for a decoded request whose method is none of initialize, tools/list
\* and tools/call, the response handed to send_message has an error with
\* code -32601 and no result; if it was put on the queue it is the newest
\* response sent on that connection.
C9_UnknownMethod ==
    (/\ PostOnKnown
     /\ lastPost.body.env = "ok"
     /\ lastPost.body.method \notin {"initialize", "tools/list", "tools/call"})
    => (/\ HasErrorCode(LastResponse, MethodNotFound)
        /\ ~ HasField(LastResponse, "result")
        /\ lastPost.enqueued = 1 =>
              sent[lastPost.conn][Len(sent[lastPost.conn])] = LastResponse)

C9_Witness ==
    /\ PostOnKnown
    /\ lastPost.body.env = "ok"
    /\ lastPost.body.method = "resources/list"
    /\ lastPost.enqueued = 1

\* the handling of the request raised an exception: in lines 154-155, or in
\* the tool execution of tools/call
HandlingRaised(body) ==
    \/ EnvelopeException(body) # None
    \/ body.method = "tools/call" /\ CallTool(body.params).raised

IsInternalError(response, exc) ==
    /\ HasErrorCode(response, InternalError)
    /\ response.error[1].message = <<"Internal error">>
    /\ response.error[1].data = Some(exc)
    /\ ~ HasField(response, "result")

\* C10 (the claim as stated): whenever the envelope is malformed or the
\* handling raises, the response has an error with code -32603.
C10_AnyExceptionIsInternalError ==
    (PostOnKnown /\ HandlingRaised(lastPost.body)) => HasErrorCode(LastResponse, InternalError)

\* C10 (amended): a malformed envelope gives the response error.code -32603,
\* message "Internal error" and the exception text as data; an exception
\* raised in the tool execution of tools/call gives a result with isError
\* true and no error.  If the response was put on the queue it is the newest
\* response sent on that connection.
C10_InternalErrorAmended ==
    PostOnKnown =>
        /\ EnvelopeException(lastPost.body) # None
              => IsInternalError(LastResponse, EnvelopeException(lastPost.body)[1])
        /\ (/\ EnvelopeException(lastPost.body) = None
            /\ lastPost.body.method = "tools/call"
            /\ CallTool(lastPost.body.params).raised)
              => (/\ ~ HasField(LastResponse, "error")
                  /\ HasField(LastResponse, "result")
                  /\ LastResponse.result[1].isError)
        /\ lastPost.enqueued = 1 =>
              sent[lastPost.conn][Len(sent[lastPost.conn])] = LastResponse

\* a request whose body is no MCPRequest was answered on its connection
C10_Witness ==
    /\ PostOnKnown
    /\ lastPost.body.env = "invalid"
    /\ lastPost.enqueued = 1
    /\ IsInternalError(LastResponse, <<"ValidationError: MCPRequest">>)

\* the last handler dispatched a tools/call of one of the two converters
IsConvertCall ==
    /\ PostOnKnown
    /\ lastPost.body.env = "ok"
    /\ lastPost.body.method = "tools/call"
    /\ lastPost.body.params.name \in {"convert_to_csv", "convert_to_excel"}

\* validate_data was reached and rejected the data
ValidationRejects(params) ==
    params.args = "dict" /\ ~ validate_data(params.data)[1]

\* the encoder was reached
EncoderInvoked(params) ==
    /\ params.args = "dict"
    /\ validate_data(params.data)[1]
    /\ ~ ConvertRequestRaises(params.data, params.headers)

LastEncoderResponse ==
    EncoderResponse(lastPost.body.params,
                    lastPost.body.params.name = "convert_to_excel")

\* the encoder was reached and returned success=false
EncoderFails(params) ==
    EncoderInvoked(params) /\ ~ LastEncoderResponse.success

\* the response carries a result and no error, and the text of a successful
\* conversion is the encoder's content
ConvertCallShape ==
    /\ HasField(LastResponse, "result")
    /\ ~ HasField(LastResponse, "error")
    /\ LastResponse.id = lastPost.body.id
    /\ (EncoderInvoked(lastPost.body.params) /\ LastEncoderResponse.success
          => LastResponse.result[1].text = LastEncoderResponse.content)

\* C11 as stated: the response of a tools/call of convert_to_csv or
\* convert_to_excel always has a result and no error, and its isError is true
\* exactly when validate_data rejects the data or the encoder returns
\* success=false; on success the text is the encoder's content.
C11_IsErrorOnlyOnRejection ==
    IsConvertCall =>
        /\ ConvertCallShape
        /\ LastResponse.result[1].isError
              <=> (\/ ValidationRejects(lastPost.body.params)
                   \/ EncoderFails(lastPost.body.params))

\* C11 amended: isError is true exactly when validate_data rejects the data,
\* the encoder returns success=false, or the tool's execution raises (the
\* arguments are no object, or the ConvertRequest cannot be built).
C11_IsErrorAmended ==
    IsConvertCall =>
        /\ ConvertCallShape
        /\ LastResponse.result[1].isError
              <=> (\/ ValidationRejects(lastPost.body.params)
                   \/ EncoderFails(lastPost.body.params)
                   \/ CallTool(lastPost.body.params).raised)

\* a conversion that succeeded was answered with the encoder's content, and
\* the response was put on the connection's queue
C11_Witness ==
    /\ IsConvertCall
    /\ EncoderInvoked(lastPost.body.params)
    /\ LastEncoderResponse.success
    /\ ~ LastResponse.result[1].isError
    /\ LastResponse.result[1].text = LastEncoderResponse.content
    /\ lastPost.enqueued = 1

\* a dumped MCPResponse with exactly one of result and error
IsResultXorError(response) ==
    /\ HasField(response, "result") # HasField(response, "error")
    /\ response.jsonrpc = "2.0"

\* C20: every response the dispatcher produces, whether it reaches a queue or
\* is dropped by send_message, contains exactly one of result and error, and
\* its jsonrpc is "2.0".
C20_ResultXorError ==
    /\ PostFinished => IsResultXorError(LastResponse)
    /\ \A c \in ConnIds : \A i \in 1..Len(sent[c]) : IsResultXorError(sent[c][i])

\* a tools/call whose execution raised was answered, on its queue, with a
\* result alone
C20_Witness ==
    /\ PostOnKnown
    /\ lastPost.body.env = "ok"
    /\ lastPost.body.method = "tools/call"
    /\ CallTool(lastPost.body.params).raised
    /\ sent[lastPost.conn] = <<LastResponse>>
    /\ HasField(LastResponse, "result")
    /\ ~ HasField(LastResponse, "error")

\* C16: a close removes exactly the closed id from the mapping and touches no
\* queue and no stream; from then on nothing is emitted on the stream of the
\* closed id, what was buffered for it stays undelivered, and a message sent
\* to it is put on no queue.
C16_CloseDiscardsQueue ==
    [][\A c \in ConnIds :
         /\ (c \in connections /\ c \notin connections')
               => /\ connections' = connections \ {c}
                  /\ queue' = queue
                  /\ events' = events
                  /\ pc'[c] = "closed"
         /\ (pc[c] = "closed")
               => /\ pc'[c] = "closed"
                  /\ c \notin connections'
                  /\ events'[c] = events[c]
                  /\ queue'[c] = queue[c]
                  /\ sent'[c] = sent[c]]_vars

\* a connection was closed with a response still buffered, and a response
\* sent to it afterwards was dropped, while another connection stays open
C16_Witness ==
    \E c \in ConnIds :
        /\ pc[c] = "closed"
        /\ c \notin connections
        /\ connections # {}
        /\ queue[c] # <<>>
        /\ StreamMessages(c) = <<>>
        /\ lastPost.conn = c
        /\ lastPost.known
        /\ lastPost.enqueued = 0

\* C17: in every reachable state the session count that GET /health reports
\* equals the number of connections registered in the connection manager.
C17_HealthCountsConnections ==
    health.sessions = Cardinality(connections)

\* C18: every message emitted on the stream of a connection was enqueued for
\* that connection; a put grows the queue of the addressed connection alone,
\* and an item leaves a queue only as the next event of that queue's own
\* stream.
C18_NoCrossDelivery ==
    /\ [](\A c \in ConnIds : \A i \in 1..Len(StreamMessages(c)) :
             StreamMessages(c)[i] \in Range(sent[c]))
    /\ [][queue' # queue =>
             \E c \in ConnIds :
                 /\ \A d \in ConnIds \ {c} : queue'[d] = queue[d]
                 /\ \/ /\ queue'[c] = Append(queue[c], lastPost'.response[1])
                       /\ lastPost'.conn = c
                       /\ sent' = [sent EXCEPT ![c] = Append(@, lastPost'.response[1])]
                       /\ events' = events
                    \/ /\ queue[c] # <<>>
                       /\ queue'[c] = Tail(queue[c])
                       /\ pc[c] = "waiting"
                       /\ events' = [events EXCEPT ![c] =
                                        Append(@, MessageEvent(Head(queue[c])))]]_vars

\* two connections are open and each stream has emitted its own response,
\* different from the other's
C18_Witness ==
    \E a, b \in ConnIds :
        /\ a # b
        /\ {a, b} \subseteq connections
        /\ StreamMessages(a) # <<>>
        /\ StreamMessages(b) # <<>>
        /\ StreamMessages(a) = sent[a]
        /\ StreamMessages(b) = sent[b]
        /\ StreamMessages(a)[1] # StreamMessages(b)[1]

Encoders == {"convert_to_csv", "convert_to_excel", "convert_to_excel_with_styling"}

\* C12: for validated data and a supplied headers list whose length differs
\* from the length of the first row, the empty list included, each of the
\* three encoders returns success=false with empty content and no filename.
C12_HeaderMismatchFails ==
    (/\ fn.op \in Encoders
     /\ fn.headers.kind = "list"
     /\ Len(fn.headers.names) # Len(fn.data.rows[1].cells))
        => /\ ~ fn.response.success
           /\ fn.response.content = <<>>
           /\ fn.response.filename = <<>>

\* rows that are all lists of the length of the first, at least one row
IsRectangular(data) ==
    /\ data.kind = "list"
    /\ data.rows # <<>>
    /\ \A i \in 1..Len(data.rows) :
          data.rows[i].list /\ Len(data.rows[i].cells) = Len(data.rows[1].cells)

\* C19: validate_data returns (False, "Data cannot be empty") for the empty
\* list, (True, "") for every non-empty list of rows that are lists of one
\* length, and (False, a message) for every other input.
C19_ValidateAcceptsRectangular ==
    fn.op = "validate_data" =>
        /\ fn.data = DataList(<<>>) => fn.valid = <<FALSE, <<"Data cannot be empty">> >>
        /\ IsRectangular(fn.data) => fn.valid = <<TRUE, <<>> >>
        /\ ~ IsRectangular(fn.data) => ~ fn.valid[1] /\ fn.valid[2] # <<>>

\* validate_data has rejected a list whose second row is shorter than its
\* first
C19_Witness ==
    /\ fn.op = "validate_data"
    /\ fn.data = DataList(<<Row(<<"a", "b">>), Row(<<"a">>)>>)
    /\ fn.valid = <<FALSE, <<"All rows must have the same number of columns">> >>

\* C15: disconnect on an id that is no key of the mapping (never connected,
\* or disconnected before) changes neither the mapping nor any queue and does
\* not raise; disconnecting an id twice leaves the state that disconnecting
\* it once leaves.
C15_DisconnectIdempotent ==
    /\ [](\A c \in ConnIds :
             /\ Disconnect(Disconnect(connections, c), c) = Disconnect(connections, c)
             /\ ~ DisconnectRaises(Disconnect(connections, c), c))
    /\ [][(mgr'.calls = mgr.calls + 1 /\ mgr'.op = "disconnect" /\ mgr'.id \notin connections)
            => /\ connections' = connections
               /\ queue' = queue
               /\ ~ mgr'.raised]_vars

\* an id was connected, sent a message, disconnected and then disconnected
\* again: the second call returned and the id is still no key
C15_Witness ==
    /\ mgr.op = "disconnect"
    /\ ~ mgr.known
    /\ ~ mgr.raised
    /\ mgr.id \notin connections
    /\ queue[mgr.id] # <<>>

\* a step of the call failed, by error return or by exception
StepFailed(env, exit) ==
    \/ env.create = "raise"
    \/ "write" \in Range(exit.steps) /\ env.write = "raise"
    \/ "exists" \in Range(exit.steps) /\ ~ env.exists
    \/ "check" \in Range(exit.steps) /\ env.check = "raise"
    \/ "mkdir" \in Range(exit.steps) /\ env.mkdir = "raise"
    \/ "upload_sync" \in Range(exit.steps) /\ env.upload_sync = "raise"
    \/ "share" \in Range(exit.steps) /\ env.share # "url"

\* C13: upload_and_share and upload_binary_and_share never raise to their
\* caller, and when a step of the call fails the call returns (False, None).
C13_UploadNeverRaises ==
    up.op # "none" =>
        /\ ~ up.exit.raised
        /\ StepFailed(up.env, up.exit) => ~ up.exit.success /\ up.exit.link = None

\* C14: after a call of upload_and_share or upload_binary_and_share has
\* exited, by return or by exception, the temporary file it created does not
\* exist.
C14_TempFileRemoved ==
    up.op # "none" => up.exit.tmp # "exists"

\* csv.reader: the records of a CSV text, each a sequence of fields, each a
\* sequence of characters.  `quoted`: inside a quoted field; `started`: the
\* current record has begun.
RECURSIVE ParseCsv(_, _, _, _, _)
ParseCsv(cs, quoted, started, field, record) ==
    IF cs = <<>>
    THEN IF started THEN <<Append(record, field)>> ELSE <<>>
    ELSE LET ch == Head(cs)
             rest == Tail(cs)
         IN IF quoted
            THEN IF ch = "\""
                 THEN IF rest # <<>> /\ Head(rest) = "\""
                      THEN ParseCsv(Tail(rest), TRUE, TRUE, Append(field, "\""), record)
                      ELSE ParseCsv(rest, FALSE, TRUE, field, record)
                 ELSE ParseCsv(rest, TRUE, TRUE, Append(field, ch), record)
            ELSE IF ch = "\"" THEN ParseCsv(rest, TRUE, TRUE, field, record)
            ELSE IF ch = "," THEN ParseCsv(rest, FALSE, TRUE, <<>>, Append(record, field))
            ELSE IF ch = "\n"
            THEN <<IF started THEN Append(record, field) ELSE <<>> >>
                   \o ParseCsv(rest, FALSE, FALSE, <<>>, <<>>)
            ELSE ParseCsv(rest, FALSE, TRUE, Append(field, ch), record)

\* str(value) of a cell
StrOf(cell) == IF cell = "null" THEN "None" ELSE cell

\* the cell values of the data as strings, row by row
CellStrings(data) ==
    [i \in 1..Len(data.rows) |->
        [j \in 1..Len(data.rows[i].cells) |-> Chars(StrOf(data.rows[i].cells[j]))]]

\* C21: for non-empty rectangular data without headers, the records parsed
\* from the content of convert_to_csv, after the line of column labels, are
\* exactly the original cell values as strings, row by row and column by
\* column.
C21_CsvRoundTrip ==
    (fn.op = "convert_to_csv" /\ fn.headers = HeadersNone /\ fn.response.success)
        => Tail(ParseCsv(fn.response.content, FALSE, FALSE, <<>>, <<>>)) = CellStrings(fn.data)

\* C22: a step that emits a ping on a connection changes nothing but the
\* events of that stream (and the position of its loop, which is suspended at
\* the yield of the ping inside the loop): the mapping, every queue and every
\* other stream are as before and the id is still registered; and while a
\* loop is suspended at a ping its id is registered.
C22_PingChangesOnlyEvents ==
    /\ [](\A c \in ConnIds : pc[c] = "yield_ping" => c \in connections)
    /\ [][\A c \in ConnIds :
            events'[c] = Append(events[c], PingEvent)
            => (/\ c \in connections'
                /\ connections' = connections
                /\ queue' = queue
                /\ sent' = sent
                /\ how' = how
                /\ pending' = pending
                /\ lastPost' = lastPost
                /\ events' = [events EXCEPT ![c] = Append(@, PingEvent)]
                /\ pc' = [pc EXCEPT ![c] = "yield_ping"])]_vars

\* after two consecutive pings on an open connection a response enqueued
\* after them has been emitted, and the connection is still registered
C22_Witness ==
    \E c \in ConnIds :
        /\ c \in connections
        /\ Len(events[c]) = 4
        /\ events[c][2] = PingEvent
        /\ events[c][3] = PingEvent
        /\ events[c][4] = MessageEvent(sent[c][1])
        /\ Len(sent[c]) = 1

\* the encoder of the last tools/call was reached and raised inside its try
\* block
EncoderRaised(params) ==
    /\ EncoderInvoked(params)
    /\ params.name = "convert_to_excel"
    /\ LET request_obj == ConvertRequest(params.data, params.headers, params.filename)
       IN /\ ~ (HeadersGiven(request_obj)
                  /\ Len(request_obj.headers.names) # ColumnCount(request_obj))
          /\ ToExcelRaises(request_obj)

\* C23: when an encoder raises inside a tools/call, the encoder returns
\* success=false with a message and the response is a result with
\* isError=true whose text carries that message; when the arguments cannot be
\* read or the ConvertRequest cannot be built, the response is a result with
\* isError=true whose text carries the exception; in neither case is it an
\* error response, and the step leaves the connection registered and its
\* streaming loop where it was.
C23_EncoderExceptionIsToolError ==
    /\ []((IsConvertCall /\ EncoderRaised(lastPost.body.params))
            => /\ ~ LastEncoderResponse.success
               /\ LastEncoderResponse.content = <<>>
               /\ LastEncoderResponse.message # <<>>
               /\ HasField(LastResponse, "result")
               /\ ~ HasField(LastResponse, "error")
               /\ LastResponse.result[1].isError
               /\ LastResponse.result[1].text = <<"Error: ">> \o LastEncoderResponse.message)
    /\ []((IsConvertCall /\ CallTool(lastPost.body.params).raised)
            => /\ HasField(LastResponse, "result")
               /\ ~ HasField(LastResponse, "error")
               /\ LastResponse.result[1].isError
               /\ LastResponse.result[1].text
                     = <<"Error: ">> \o CallTool(lastPost.body.params).exc)
    /\ [][(/\ lastPost'.known
            /\ pending' # pending
            /\ lastPost'.body.method = "tools/call"
            /\ \/ EncoderRaised(lastPost'.body.params)
               \/ CallTool(lastPost'.body.params).raised)
           => (connections' = connections /\ pc' = pc /\ events' = events)]_vars

\* on one connection a tools/call whose encoder raised was answered with a
\* tool error, and the request posted after it was served
C23_Witness ==
    \E c \in connections :
        /\ Len(sent[c]) = 2
        /\ sent[c][1].id = Some("r1")
        /\ HasField(sent[c][1], "result")
        /\ sent[c][1].result[1].isError
        /\ sent[c][1].result[1].text
              = <<"Error: ", "Error converting to Excel: ", "IllegalCharacterError">>
        /\ sent[c][2].id = Some("r4")
        /\ ~ sent[c][2].result[1].isError

\* the positions of a step in the steps a call took
Positions(steps, step) == {i \in 1..Len(steps) : steps[i] = step}

\* every occurrence of step a comes before every occurrence of step b
Before(steps, a, b) ==
    \A i \in Positions(steps, a) : \A j \in Positions(steps, b) : i < j

\* C24: within one call of upload_and_share or upload_binary_and_share the
\* temporary file is written before the upload and the upload is made
\* before the share-link request; the share-link request is made only after
\* an upload that succeeded; upload and share-link request are each made at
\* most once; and the call returns (True, url) only if both succeeded, with
\* the url the share request returned.
C24_UploadStepsInOrder ==
    up.op # "none" =>
        LET steps == up.exit.steps
        IN /\ Before(steps, "write", "upload_sync")
           /\ Before(steps, "upload_sync", "share")
           /\ Positions(steps, "upload_sync") # {} => Positions(steps, "write") # {}
           /\ Positions(steps, "share") # {}
                 => Positions(steps, "upload_sync") # {} /\ up.env.upload_sync = "ok"
           /\ Cardinality(Positions(steps, "upload_sync")) <= 1
           /\ Cardinality(Positions(steps, "share")) <= 1
           /\ up.exit.success
                 => /\ ~ up.exit.raised
                    /\ Positions(steps, "share") # {}
                    /\ up.env.upload_sync = "ok"
                    /\ up.env.share = "url"
                    /\ up.exit.link # None
                    /\ up.exit.link = create_public_share(up.env)

\* a call has created the folder, uploaded, obtained a share link and
\* returned (True, url)
C24_Witness ==
    /\ up.op = "upload_binary_and_share"
    /\ up.exit.success
    /\ up.exit.link # None
    /\ up.exit.steps = <<"create", "write", "exists", "check", "mkdir", "upload_sync",
                         "share", "unlink">>

\* the tools of fastmcp_server.py that convert
ConvertingTools ==
    {"convert_to_csv", "convert_to_excel", "convert_to_csv_and_upload",
     "convert_to_excel_and_upload"}

\* every encoder in a trace of invocations was given data that validate_data
\* accepts
OnlyValidEncoded(encoders) ==
    \A i \in 1..Len(encoders) : validate_data(encoders[i].data)[1]

\* C25: neither the SSE dispatcher nor a FastMCP tool invokes an encoder on
\* data that validate_data rejects.  Every encoder invocation of a tools/call
\* and of a tool is on data that validate_data accepts, and it is the data of
\* the call; when validate_data rejects the data of a call no encoder is
\* invoked at all, the dispatcher's result is the validation error with
\* isError true and the tool raises "Invalid data: ..".
C25_ValidationBeforeEncoding ==
    /\ OnlyValidEncoded(lastPost.encoders)
    /\ \A i \in 1..Len(lastPost.encoders) :
          lastPost.encoders[i].data = lastPost.body.params.data
    /\ (IsConvertCall /\ ValidationRejects(lastPost.body.params)) =>
          /\ lastPost.encoders = <<>>
          /\ LastResponse.result =
                Some(ToolContent(<<"Error: ">> \o validate_data(lastPost.body.params.data)[2],
                                 TRUE))
    /\ OnlyValidEncoded(tool.out.encoders)
    /\ \A i \in 1..Len(tool.out.encoders) : tool.out.encoders[i].data = tool.args.data
    /\ (tool.op \in ConvertingTools /\ tool.args.callable
          /\ ~ validate_data(tool.args.data)[1]) =>
          /\ tool.out.encoders = <<>>
          /\ tool.out.raised
          /\ tool.out.error = <<"Invalid data: ">> \o validate_data(tool.args.data)[2]

\* a tools/call of convert_to_excel with rows of different lengths has been
\* answered with the validation error, and no encoder was invoked
C25_Witness ==
    /\ IsConvertCall
    /\ lastPost.body.params.name = "convert_to_excel"
    /\ lastPost.body.params.data = Ragged
    /\ lastPost.encoders = <<>>
    /\ LastResponse.result =
          Some(ToolContent(<<"Error: ", "All rows must have the same number of columns">>,
                           TRUE))

\* the tools that upload, and the words each puts in its failure
UploadTools ==
    {"convert_to_csv_and_upload", "convert_to_excel_and_upload", "upload_csv_to_nextcloud"}

FailureOf(op) ==
    <<"Failed to upload ",
      IF op = "convert_to_csv_and_upload" THEN "CSV file"
      ELSE IF op = "convert_to_excel_and_upload" THEN "Excel file"
      ELSE "CSV content",
      " to Nextcloud or create share link">>

\* C26: an upload tool returns a value only if it called the uploader once
\* and the uploader returned (True, url) with a non-empty url, and the value
\* is that url; whenever the uploader returned (False, None) the tool raised
\* "Failed to upload .. to Nextcloud or create share link" and returned
\* nothing, neither a url nor the content.
C26_UrlOnlyFromSuccessfulUpload ==
    tool.op \in UploadTools =>
       /\ ~ tool.out.raised =>
             /\ Len(tool.out.uploads) = 1
             /\ ~ tool.out.uploads[1].exit.raised
             /\ tool.out.uploads[1].exit.success
             /\ tool.out.uploads[1].exit.link # None
             /\ tool.out.uploads[1].exit.link # Some("")
             /\ tool.out.value = tool.out.uploads[1].exit.link
       /\ \A i \in 1..Len(tool.out.uploads) :
             (/\ ~ tool.out.uploads[i].exit.raised
              /\ ~ tool.out.uploads[i].exit.success
              /\ tool.out.uploads[i].exit.link = None) =>
                /\ tool.out.raised
                /\ tool.out.error = FailureOf(tool.op)
                /\ tool.out.value = <<>>

\* convert_to_excel_and_upload converted a table, the upload succeeded, no
\* share link could be created, and the tool raised its failure
C26_Witness ==
    /\ tool.op = "convert_to_excel_and_upload"
    /\ tool.args.data = Table
    /\ Len(tool.out.uploads) = 1
    /\ tool.out.uploads[1].exit = upload_binary_and_share(tool.args.env)
    /\ tool.args.env.share = "none"
    /\ ~ tool.out.uploads[1].exit.raised
    /\ "share" \in Range(tool.out.uploads[1].exit.steps)
    /\ tool.out.raised
    /\ tool.out.error = FailureOf("convert_to_excel_and_upload")

\* the tools that convert and then upload
CombinedTools == {"convert_to_csv_and_upload", "convert_to_excel_and_upload"}

\* the response of the encoder of an invocation, for the headers of the call
ResponseOf(invocation, headers) ==
    LET request == ConvertRequest(invocation.data, headers, <<"data">>)
    IN IF invocation.encoder = "convert_to_csv" THEN convert_to_csv(request)
       ELSE IF invocation.encoder = "convert_to_excel" THEN convert_to_excel(request)
       ELSE convert_to_excel_with_styling(request)

\* validation, the construction of the ConvertRequest or the encoder fails on
\* the arguments of the call
ConversionFails(op, args) ==
    \/ ~ validate_data(args.data)[1]
    \/ ConvertRequestRaises(args.data, args.headers)
    \/ ~ ResponseOf(Encoded(IF op = "convert_to_csv_and_upload" THEN "convert_to_csv"
                            ELSE IF args.styled THEN "convert_to_excel_with_styling"
                            ELSE "convert_to_excel", args.data),
                    args.headers).success

\* C29: a combined tool whose validation or conversion fails calls no method
\* of the uploader and raises; every call of the uploader comes after exactly
\* one encoder invocation on the data of the call that returned success, and
\* hands over that invocation's content (the CSV text, or the bytes that the
\* base64 text of the workbook decodes to).
C29_UploadOnlyAfterConversion ==
    tool.op \in CombinedTools =>
       /\ ConversionFails(tool.op, tool.args) =>
             tool.out.uploads = <<>> /\ tool.out.raised /\ tool.out.value = <<>>
       /\ \A i \in 1..Len(tool.out.uploads) :
             /\ Len(tool.out.encoders) = 1
             /\ tool.out.encoders[1].data = tool.args.data
             /\ ResponseOf(tool.out.encoders[1], tool.args.headers).success
             /\ tool.out.uploads[i].content =
                   IF tool.op = "convert_to_csv_and_upload"
                   THEN ResponseOf(tool.out.encoders[1], tool.args.headers).content
                   ELSE B64Decode(ResponseOf(tool.out.encoders[1], tool.args.headers).content)
             /\ tool.out.uploads[i].content # <<>>

\* convert_to_excel_and_upload was called with a cell that the workbook
\* writer refuses: the encoder was invoked and failed, nothing was uploaded
C29_Witness ==
    /\ tool.op = "convert_to_excel_and_upload"
    /\ tool.args.data = WithFormFeed
    /\ tool.args.headers = HeadersNone
    /\ Len(tool.out.encoders) = 1
    /\ ~ ResponseOf(tool.out.encoders[1], tool.args.headers).success
    /\ tool.out.uploads = <<>>
    /\ tool.out.raised
    /\ tool.out.error = <<"Conversion failed: ", "Error converting to Excel: ",
                          "IllegalCharacterError">>

\* the three optional credential arguments are all supplied and non-empty
AllSupplied(creds) ==
    /\ creds.nextcloud_url \notin {None, Some("")}
    /\ creds.username \notin {None, Some("")}
    /\ creds.password \notin {None, Some("")}

StreamingPcs == {"created", "yield_endpoint", "waiting", "yield_message", "yield_ping"}

\* C27 (the claim as stated): every id in the connections mapping has a
\* streaming loop that exists and has not terminated; an id whose response
\* stream will never be iterated is not in the mapping.
C27_RegisteredOnlyWhileStreaming ==
    \A c \in connections : pc[c] \in StreamingPcs

\* the stream of c has ended or will never be iterated
StreamOver(c) == pc[c] \in {"closed", "abandoned"}

\* the n-th response enqueued on c has been emitted as the n-th message
\* event of the stream of c
Emitted(c, n) ==
    /\ Len(StreamMessages(c)) >= n
    /\ StreamMessages(c)[n] = sent[c][n]

\* C28: under fair scheduling of the streaming loop, the n-th response that
\* send_message put on the queue of a connection is eventually emitted as the
\* n-th message event of that connection's stream, unless the stream is
\* closed, cancelled or never iterated.  (The c-th connection is opened by the
\* c-th request at the earliest, which leaves LiveRequests - c posts.)
C28_EnqueuedIsEventuallyEmitted ==
    \A c \in 1..(LiveRequests - 1) : \A n \in 1..(LiveRequests - c) :
        (Len(sent[c]) >= n) ~> (Emitted(c, n) \/ StreamOver(c))

\* two responses were enqueued on a stream, a heartbeat was emitted between
\* them, both have been emitted and the stream is still open
C28_Witness ==
    \E c \in ConnIds :
        /\ Len(sent[c]) = 2
        /\ Emitted(c, 1) /\ Emitted(c, 2)
        /\ PingEvent \in Range(events[c])
        /\ ~ StreamOver(c)
        /\ c \in connections
====
